---- MODULE Spec2Model ----
(***************************************************************************)
(* Model of the practice companion's accuracy engine (hooks/useMIDI.ts)    *)
(* together with the transport-time sample it consumes                     *)
(* (hooks/useYouTube.ts), of the metronome hook (useMetronome, in          *)
(* hooks/useYouTube.ts) and of the score loader and parser                 *)
(* (hooks/useMusicXML.ts).  Each part has its own specification: Spec and  *)
(* StatsSpec (engine), MetSpec (metronome), LoadSpec, ParseSpec and        *)
(* QuerySpec (loader, parser, the score's queries); the variables of the   *)
(* other parts stay at their initial values.  InputSpec is the engine      *)
(* with two MIDI inputs and selectInput, PollSpec is the player and the    *)
(* time-polling timer of useYouTube, and AppSpec interleaves the loader,   *)
(* the engine and the metronome.                                           *)
(*                                                                         *)
(* Units.  The code keeps score times and the transport time in seconds    *)
(* (floating point) and performance.now() / Date.now() in milliseconds.    *)
(* The model keeps every score and transport time as an integer number of  *)
(* milliseconds, so `Math.abs(n.start - currentTime) < 1` reads            *)
(* |start - currentTime| < ToleranceSec * MsPerSec, and                    *)
(* `Math.round((timestamp - n.start) * 1000)` reads                        *)
(* timestamp * MsPerSec - start (timestamp in ms, start in ms: the code    *)
(* subtracts seconds from milliseconds and multiplies the difference by    *)
(* 1000; the model computes exactly that number).                          *)
(*                                                                         *)
(* Scheduling.  handleMIDIMessage is a closure created by the              *)
(* message-handler effect; it reads options.expectedNotes and              *)
(* options.currentTime of the render the effect ran for.  React runs the   *)
(* effect after the render that follows a state update, so a transport     *)
(* sample (TimeUpdate) and the re-attachment of the handler (RunEffect)    *)
(* are separate steps, and a MIDI message may be delivered between them.   *)
(* The cleanup and the re-attachment happen in one effect flush and are    *)
(* one step.  The transport time reaches the hook as options.currentTime;  *)
(* the expected-note list is fixed for a behaviour.                        *)
(***************************************************************************)
EXTENDS Integers, Sequences, FiniteSets, TLC

\* ------------------------------------------------------------------ bounds
MaxLog == 2
MaxActive == 2
MaxClock == 1
MaxStatLog == 8
MaxTimers == 2
MaxMeasures == 2
MaxLoads == 2
MaxPlayers == 2
MaxPolls == 3

\* ------------------------------------------------------- program constants
ToleranceSec == 1
MsPerSec == 1000
WrongPitch == 0 - 1
MsPerMinute == 60000
TickModulus == 4
BeatsPerMeasure == 4
DefaultTempo == 74
DefaultDivisions == 4
SemitonesPerOctave == 12
SecondsPerMinute == 60
MiddleC == 60
Playing == 1

\* ------------------------------------------------------------ input domains
Null == "null"

\* an optional value (undefined, or a value): the empty sequence, or the
\* one-element sequence holding the value
Absent == << >>
Some(v) == << v >>
Provided(o) == o # Absent
ValueOf(o) == o[1]

NoHandler == Absent

Devices == {"in1", "in2"}
InputLists == {<<>>, <<"in1">>}

Pitches == {60, 61}
Velocities == {0, 100}
Commands == {128, 144, 159, 160}

\* transport-time samples, in ms
TransportTimes == {0, 500, 1000}

\* an expected-note list as the parser emits it: two notes of pitch 60 and
\* a later one of pitch 61, ids `note-<measure>-<index>` written as token
\* sequences, times in ms
Score ==
  << [id |-> <<"note", 1, 0>>, pitch |-> 60, start |-> 0, end |-> 500],
     [id |-> <<"note", 1, 1>>, pitch |-> 60, start |-> 500, end |-> 1000],
     [id |-> <<"note", 2, 0>>, pitch |-> 61, start |-> 2000, end |-> 2500] >>

ExpectedLists == {Absent, Some(<< >>), Some(Score)}

VARIABLES
  midiInit,       \* position of the initMIDI effect: "start" | "done"
  midiSupported,  \* useState(false)
  errorMessage,   \* useState(null)
  midiInputs,     \* useState([])
  selectedInput,  \* useState(null)
  activeNotes,    \* useState([]): the held notes, a list
  accuracy,       \* useState([]): the accuracy log
  options,        \* the options of the latest render: expectedNotes, currentTime
  effectDeps,     \* the dependencies the message-handler effect last ran with
  onmidimessage,  \* per device: the attached handler's closure, or NoHandler
  clock,          \* performance.now() / Date.now(), in ms
  lastMsg         \* history: the last press or release processed (its kind,
                  \* its pitch and, for a press, the closure of the handler
                  \* that processed it), or Absent

midiVars == << midiInit, midiSupported, errorMessage, midiInputs,
               selectedInput, activeNotes, accuracy, options, effectDeps,
               onmidimessage, clock, lastMsg >>

\* the metronome hook (useMetronome, hooks/useYouTube.ts)
VARIABLES
  metPhase,       \* "rendered" (first render done, effects pending) |
                  \* "mounted" | "unmounted"
  isPlaying,      \* useState(false)
  bpm,            \* useState(options.tempo || 74)
  currentBeat,    \* useState(0)
  rendered,       \* what the closures of the latest render captured:
                  \* isPlaying, bpm, currentBeat, and the options (tempo,
                  \* enabled) of that render
  audioRef,       \* audioRef.current is an element (TRUE) or null (FALSE)
  intervalRef,    \* intervalRef.current: a timer handle, or NoTimer
  timers,         \* the live repeating timers of the window: handle,
                  \* interval in ms, and the currentBeat their callback
                  \* captured
  nextHandle,     \* the handle the next window.setInterval returns
  metLast         \* history: the last metronome operation and, for a tick,
                  \* the argument its onTick call passed

metVars == << metPhase, isPlaying, bpm, currentBeat, rendered,
              audioRef, intervalRef, timers, nextHandle, metLast >>

\* the score loader (useMusicXML, hooks/useMusicXML.ts)
VARIABLES
  xmlPath,        \* the xmlPath argument of the latest render
  xmlDeps,        \* the xmlPath the load effect last ran with, or Absent
  loading,        \* useState(true)
  error,          \* useState(null): Null, or a message
  musicData,      \* useState(null): Absent, or the parsed score
  inflight,       \* the load attempts awaiting their response: id, path
  nextLoad,       \* the id of the next load attempt
  xmlLast,        \* history: the last loader step and the attempt it ended
  xmlDoc,         \* history: the document the published score was parsed
                  \* from, or Absent
  queryLast       \* history: the last query made of the current musicData:
                  \* its name, its argument and the value it returned, or
                  \* Absent when none was made since musicData was set

xmlVars == << xmlPath, xmlDeps, loading, error, musicData, inflight,
              nextLoad, xmlLast, xmlDoc, queryLast >>

\* the transport (useYouTube, hooks/useYouTube.ts): the player and its
\* transport-time poll
VARIABLES
  ytPhase,        \* "rendered" (first render done, effects pending) |
                  \* "mounted" | "unmounted"
  apiReady,       \* window.YT && window.YT.Player
  container,      \* document.getElementById(containerId) finds an element
  initPending,    \* the pending setTimeout(initializePlayer, 100) calls
  players,        \* the players created and not gone: the ones that can
                  \* still raise onStateChange
  playerRef,      \* playerRef.current: a player, or NoPlayer
  nextPlayer,     \* the id of the next player created
  playerState,    \* useState(null): Null, or the last state notified
  timeUpdateInterval, \* timeUpdateInterval.current: a handle, or NoTimer
  pollTimers,     \* the live repeating timers of the poll
  nextPoll,       \* the handle the next window.setInterval returns
  ytTime,         \* useState(0): currentTime, the last sample, in ms
  ytLast          \* history: the last transport step and its argument

ytVars == << ytPhase, apiReady, container, initPending, players, playerRef,
             nextPlayer, playerState, timeUpdateInterval, pollTimers,
             nextPoll, ytTime, ytLast >>

\* the variables the accuracy engine's actions leave alone
nonMidiVars == << metVars, xmlVars, ytVars >>

\* the variables the metronome's actions leave alone
nonMetVars == << midiVars, xmlVars, ytVars >>

\* the variables the score loader's actions leave alone
nonXmlVars == << midiVars, metVars, ytVars >>

\* the variables the transport's actions leave alone
nonYtVars == << midiVars, metVars, xmlVars >>

vars == << midiVars, metVars, xmlVars, ytVars >>

\* ------------------------------------------------------------------ helpers
Abs(x) == IF x < 0 THEN 0 - x ELSE x

\* variant: Math.floor in place of Math.round
RoundDivFloor(num, den) == num \div den

\* Math.round(num / den) for num >= 0, den > 0: floor(num/den + 1/2)
RoundDiv(num, den) == (2 * num + den) \div (2 * den)


\* -------------------------------------------------------------- the matcher
\* variant: `<= 1` in place of `< 1`
MatchesInclusive(n, currentTime, note) ==
  /\ Abs(n.start - currentTime) <= ToleranceSec * MsPerSec
  /\ n.pitch = note

\* the predicate of options.expectedNotes.find(...): within 1 second of the
\* expected start time, and the same pitch
Matches(n, currentTime, note) ==
  /\ Abs(n.start - currentTime) < ToleranceSec * MsPerSec
  /\ n.pitch = note

\* Array.prototype.find: the first element, in index order, that satisfies
\* the predicate, or Absent (undefined) when none does
RECURSIVE Find(_, _, _)
Find(notes, currentTime, note) ==
  IF notes = <<>> THEN Absent
  ELSE IF Matches(Head(notes), currentTime, note) THEN Some(Head(notes))
       ELSE Find(Tail(notes), currentTime, note)

\* Math.round((timestamp - expectedNote.start) * 1000): timestamp is
\* performance.now() in ms, start is a score time (ms in the model)
TimingOffset(timestamp, n) == timestamp * MsPerSec - n.start

CorrectRecord(n, note, timestamp) ==
  [noteId |-> n.id, expectedNote |-> n.pitch, actualNote |-> note,
   timingOffset |-> TimingOffset(timestamp, n), isCorrect |-> TRUE]

\* variant: the pressed pitch in place of the -1 sentinel
WrongRecordEcho(note, dateNow) ==
  [noteId |-> <<"wrong", dateNow>>, expectedNote |-> note,
   actualNote |-> note, timingOffset |-> 0, isCorrect |-> FALSE]

\* noteId: `wrong-${Date.now()}`
WrongRecord(note, dateNow) ==
  [noteId |-> <<"wrong", dateNow>>, expectedNote |-> WrongPitch,
   actualNote |-> note, timingOffset |-> 0, isCorrect |-> FALSE]

\* variant: `options.expectedNotes && options.currentTime`, which takes a
\* transport time of 0 for a missing one
ComparingTruthy(h) ==
  /\ Provided(h.expectedNotes)
  /\ Provided(h.currentTime)
  /\ ValueOf(h.currentTime) # 0

\* if (options.expectedNotes && options.currentTime !== undefined)
Comparing(h) == Provided(h.expectedNotes) /\ Provided(h.currentTime)

\* what a press appends to the log under the handler closure h
PressRecords(h, note, timestamp) ==
  IF Comparing(h)
  THEN LET expectedNote ==
             Find(ValueOf(h.expectedNotes), ValueOf(h.currentTime), note)
       IN IF Provided(expectedNote)
          THEN << CorrectRecord(ValueOf(expectedNote), note, timestamp) >>
          ELSE << WrongRecord(note, timestamp) >>
  ELSE << >>

\* variant: setAccuracy([record]), which drops the earlier records
AppendToLogReplace(prev, records) ==
  IF records = << >> THEN prev ELSE records

\* setAccuracy(prev => [...prev, record])
AppendToLog(prev, records) == prev \o records

IsNoteOn(command, velocity) ==
  command >= 144 /\ command <= 159 /\ velocity > 0

IsNoteOff(command, velocity) ==
  \/ (command >= 128 /\ command <= 143)
  \/ (command >= 144 /\ command <= 159 /\ velocity = 0)

\* variant: only the first held entry of the pitch is removed
RECURSIVE RemoveNoteFirstOnly(_, _)
RemoveNoteFirstOnly(prev, note) ==
  IF prev = << >> THEN << >>
  ELSE IF Head(prev).note = note THEN Tail(prev)
       ELSE << Head(prev) >> \o RemoveNoteFirstOnly(Tail(prev), note)

\* variant: the filter's test inverted (n.note === note)
RemoveNoteInverted(prev, note) == SelectSeq(prev, LAMBDA n : n.note = note)

\* setActiveNotes(prev => prev.filter(n => n.note !== note))
RemoveNote(prev, note) == SelectSeq(prev, LAMBDA n : n.note # note)

\* ---------------------------------------------------------- derived values
CorrectCount(log) == Len(SelectSeq(log, LAMBDA a : a.isCorrect))

AccuracyPercentageOf(log) ==
  IF Len(log) > 0 THEN RoundDiv(CorrectCount(log) * 100, Len(log)) ELSE 0

accuracyPercentage == AccuracyPercentageOf(accuracy)

\* accuracy.reduce((sum, a) => sum + Math.abs(a.timingOffset), 0)
RECURSIVE SumAbsOffsets(_)
SumAbsOffsets(log) ==
  IF log = <<>> THEN 0
  ELSE Abs(Head(log).timingOffset) + SumAbsOffsets(Tail(log))

\* variant: the mean is taken over the matched records only
AverageOverMatched(log) ==
  IF CorrectCount(log) > 0
  THEN RoundDiv(SumAbsOffsets(log), CorrectCount(log)) ELSE 0

AverageTimingOffsetOf(log) ==
  IF Len(log) > 0 THEN RoundDiv(SumAbsOffsets(log), Len(log)) ELSE 0

averageTimingOffset == AverageTimingOffsetOf(accuracy)

HeldPitches == {activeNotes[i].note : i \in 1..Len(activeNotes)}

\* ------------------------------------------------------ JavaScript numbers
\* The parser computes with doubles.  The model keeps a number as a finite
\* value, NaN, Infinity or -Infinity, and keeps finite values exactly:
\* integers as they are, quarter-note counts in units of 1/QuarterScale,
\* seconds per quarter in units of 1/BeatScale second, and times in units of
\* 1/(QuarterScale * BeatScale) second.  The documents below only use
\* divisions and tempos for which these quotients are whole numbers of units,
\* so no rounding is modelled.
QuarterScale == 4
BeatScale == 74

Fin(n) == [kind |-> "finite", v |-> n]
NaN == [kind |-> "NaN", v |-> 0]
Infinity == [kind |-> "Infinity", v |-> 0]
NegInfinity == [kind |-> "-Infinity", v |-> 0]

Sign(a) ==
  CASE a.kind = "Infinity" -> 1
    [] a.kind = "-Infinity" -> 0 - 1
    [] OTHER -> IF a.v > 0 THEN 1 ELSE IF a.v < 0 THEN 0 - 1 ELSE 0

\* a === b
JsEq(a, b) == a.kind # "NaN" /\ b.kind # "NaN" /\ a = b

\* a < b
JsLess(a, b) ==
  CASE a.kind = "NaN" \/ b.kind = "NaN" -> FALSE
    [] a = b -> FALSE
    [] a.kind = "-Infinity" \/ b.kind = "Infinity" -> TRUE
    [] a.kind = "Infinity" \/ b.kind = "-Infinity" -> FALSE
    [] OTHER -> a.v < b.v

\* a <= b
JsLeq(a, b) == JsLess(a, b) \/ JsEq(a, b)

\* a + b
JsAdd(a, b) ==
  CASE a.kind = "NaN" \/ b.kind = "NaN" -> NaN
    [] a.kind = "finite" /\ b.kind = "finite" -> Fin(a.v + b.v)
    [] a.kind = "finite" -> b
    [] b.kind = "finite" -> a
    [] a = b -> a
    [] OTHER -> NaN

\* a * b
JsMul(a, b) ==
  CASE a.kind = "NaN" \/ b.kind = "NaN" -> NaN
    [] a.kind = "finite" /\ b.kind = "finite" -> Fin(a.v * b.v)
    [] Sign(a) * Sign(b) = 0 -> NaN
    [] Sign(a) * Sign(b) > 0 -> Infinity
    [] OTHER -> NegInfinity

\* a / b for integers a and b (or NaN), the quotient in units of 1/scale
JsDiv(a, b, scale) ==
  CASE a.kind = "NaN" \/ b.kind = "NaN" -> NaN
    [] b.v # 0 -> Fin((a.v * scale) \div b.v)
    [] a.v = 0 -> NaN
    [] a.v > 0 -> Infinity
    [] OTHER -> NegInfinity

\* the texts parseInt(text, 10) reads a whole number from, with the number
IntegerTexts ==
  ("0" :> 0) @@ ("1" :> 1) @@ ("2" :> 2) @@ ("3" :> 3) @@ ("4" :> 4) @@
  ("5" :> 5) @@ ("8" :> 8) @@ ("10" :> 10) @@ ("-1" :> 0 - 1) @@
  ("-4" :> 0 - 4) @@ ("60" :> 60) @@ ("74" :> 74) @@ ("120" :> 120) @@
  ("4.5" :> 4) @@ ("2x" :> 2)

\* parseInt(text, 10): NaN when the text does not start with a number
parseInt(text) ==
  IF text \in DOMAIN IntegerTexts THEN Fin(IntegerTexts[text]) ELSE NaN

\* the text itself, with no fallback for the empty text
TextKept(text, fallback) == text

\* text || fallback
TextOr(text, fallback) == IF text = "" THEN fallback ELSE text

\* `${n}`
NumberText(n) == IF n.kind = "finite" THEN ToString(n.v) ELSE n.kind

\* ---------------------------------------------------- the loader's domains
\* score sources; the empty path starts no load
Paths == {"", "a.xml", "b.xml"}

\* the hook's state after its first render with path p, before the load
\* effect has run
XmlFirstRender(p) ==
  /\ xmlPath = p
  /\ xmlDeps = Absent
  /\ loading = TRUE
  /\ error = Null
  /\ musicData = Absent
  /\ inflight = {}
  /\ nextLoad = 1
  /\ xmlLast = [op |-> "render", id |-> 0]
  /\ xmlDoc = Absent
  /\ queryLast = Absent

\* ------------------------------------------------- the metronome's domains
\* tempo options, in BPM (both divide 60000, so 60000 / tempo is exact)
Tempos == {80, 120}

\* options.enabled is true, false or not given
EnabledValues == {"true", "false", "undefined"}

MetOptionValues == [tempo : Tempos, enabled : EnabledValues]

\* intervalRef.current = null
NoTimer == 0

\* the hook's state after its first render with options o, before any effect
\* has run (the tempo options are positive, so `options.tempo || 74` is
\* options.tempo)
MetFirstRender(o) ==
  /\ metPhase = "rendered"
  /\ isPlaying = FALSE
  /\ bpm = o.tempo
  /\ currentBeat = 0
  /\ rendered = [isPlaying |-> FALSE, bpm |-> o.tempo, currentBeat |-> 0,
                 options |-> o]
  /\ audioRef = FALSE
  /\ intervalRef = NoTimer
  /\ timers = {}
  /\ nextHandle = 1
  /\ metLast = [op |-> "render", arg |-> 0]

\* ------------------------------------------------- the transport's domains
\* playerRef.current = null
NoPlayer == 0

\* the states a player notifies: ended, playing, paused, buffering
PlayerStates == {0, Playing, 2, 3}

\* the hook's state after its first render, before any effect has run; the
\* page's script may or may not have defined window.YT yet
PollFirstRender(ready) ==
  /\ ytPhase = "rendered"
  /\ apiReady = ready
  /\ container = TRUE
  /\ initPending = 0
  /\ players = {}
  /\ playerRef = NoPlayer
  /\ nextPlayer = 1
  /\ playerState = Null
  /\ timeUpdateInterval = NoTimer
  /\ pollTimers = {}
  /\ nextPoll = 1
  /\ ytTime = 0
  /\ ytLast = [op |-> "render", arg |-> 0]

\* the transport after its first render, the API not loaded yet
PollIdle == PollFirstRender(FALSE)

\* ----------------------------------------------------------- initial state
Init ==
  /\ PollIdle
  /\ MetFirstRender([tempo |-> 120, enabled |-> "undefined"])
  /\ XmlFirstRender("")
  /\ midiInit = "start"
  /\ midiSupported = FALSE
  /\ errorMessage = Null
  /\ midiInputs = <<>>
  /\ selectedInput = Null
  /\ activeNotes = <<>>
  /\ accuracy = <<>>
  /\ options \in [expectedNotes : ExpectedLists, currentTime : {Absent, Some(0)}]
  /\ effectDeps = [selectedInput |-> Null,
                   expectedNotes |-> options.expectedNotes,
                   currentTime |-> options.currentTime]
  /\ onmidimessage = [d \in Devices |-> NoHandler]
  /\ clock = 0
  /\ lastMsg = Absent

\* ---------------------------------------------------------------- actions
\* initMIDI effect: navigator.requestMIDIAccess is missing
InitUnsupported ==
  /\ midiInit = "start"
  /\ midiInit' = "done"
  /\ midiSupported' = FALSE
  /\ errorMessage' = "WebMIDI is not supported in this browser"
  /\ UNCHANGED << midiInputs, selectedInput, activeNotes, accuracy, options,
                  effectDeps, onmidimessage, clock, lastMsg >>
  /\ UNCHANGED nonMidiVars

\* initMIDI effect: requestMIDIAccess() resolves with the inputs
InitGranted(inputs) ==
  /\ midiInit = "start"
  /\ midiInit' = "done"
  /\ midiSupported' = TRUE
  /\ midiInputs' = inputs
  /\ selectedInput' = IF Len(inputs) > 0 /\ selectedInput = Null
                      THEN inputs[1] ELSE selectedInput
  /\ UNCHANGED << errorMessage, activeNotes, accuracy, options, effectDeps,
                  onmidimessage, clock, lastMsg >>
  /\ UNCHANGED nonMidiVars

\* variant: the rejection is recorded without a message
InitDeniedSilent ==
  /\ midiInit = "start"
  /\ midiInit' = "done"
  /\ midiSupported' = FALSE
  /\ UNCHANGED << errorMessage, midiInputs, selectedInput, activeNotes,
                  accuracy, options, effectDeps, onmidimessage, clock,
                  lastMsg >>
  /\ UNCHANGED nonMidiVars

\* initMIDI effect: requestMIDIAccess() rejects
InitDenied ==
  /\ midiInit = "start"
  /\ midiInit' = "done"
  /\ midiSupported' = FALSE
  /\ errorMessage' = "Failed to get MIDI access"
  /\ UNCHANGED << midiInputs, selectedInput, activeNotes, accuracy, options,
                  effectDeps, onmidimessage, clock, lastMsg >>
  /\ UNCHANGED nonMidiVars

\* the transport-time poll delivers a sample: setCurrentTime(time), which
\* reaches the engine as options.currentTime of the next render
TimeUpdate(time) ==
  /\ options' = [options EXCEPT !.currentTime = Some(time)]
  /\ options' # options
  /\ UNCHANGED << midiInit, midiSupported, errorMessage, midiInputs,
                  selectedInput, activeNotes, accuracy, effectDeps,
                  onmidimessage, clock, lastMsg >>
  /\ UNCHANGED nonMidiVars

CurrentDeps ==
  [selectedInput |-> selectedInput, expectedNotes |-> options.expectedNotes,
   currentTime |-> options.currentTime]

\* the message-handler effect re-runs after a render in which one of its
\* dependencies changed: the previous run's cleanup detaches the handler from
\* the input it was attached to, then the new closure is attached to the
\* selected input (if any)
RunEffect ==
  /\ effectDeps # CurrentDeps
  /\ effectDeps' = CurrentDeps
  /\ onmidimessage' =
       [d \in Devices |->
          IF d = selectedInput
          THEN Some([expectedNotes |-> options.expectedNotes,
                     currentTime |-> options.currentTime])
          ELSE IF d = effectDeps.selectedInput THEN NoHandler
               ELSE onmidimessage[d]]
  /\ UNCHANGED << midiInit, midiSupported, errorMessage, midiInputs,
                  selectedInput, activeNotes, accuracy, options, clock,
                  lastMsg >>
  /\ UNCHANGED nonMidiVars

\* handleMIDIMessage: device d delivers [command, note, velocity] to the
\* handler attached to it
HandleMIDIMessage(d, command, note, velocity) ==
  /\ onmidimessage[d] # NoHandler
  /\ LET h == ValueOf(onmidimessage[d])
         timestamp == clock
     IN IF IsNoteOn(command, velocity)
        THEN /\ Len(activeNotes) < MaxActive
             /\ Len(accuracy) < MaxLog
             /\ activeNotes' = Append(activeNotes,
                  [note |-> note, velocity |-> velocity,
                   timestamp |-> timestamp])
             /\ accuracy' =
                  AppendToLog(accuracy, PressRecords(h, note, timestamp))
             /\ lastMsg' = Some([kind |-> "press", note |-> note,
                                  handler |-> Some(h)])
        ELSE IF IsNoteOff(command, velocity)
        THEN /\ activeNotes' = RemoveNote(activeNotes, note)
             /\ lastMsg' = Some([kind |-> "release", note |-> note,
                                  handler |-> Absent])
             /\ UNCHANGED accuracy
        ELSE UNCHANGED << activeNotes, accuracy, lastMsg >>
  /\ UNCHANGED << midiInit, midiSupported, errorMessage, midiInputs,
                  selectedInput, options, effectDeps, onmidimessage, clock >>
  /\ UNCHANGED nonMidiVars

\* selectInput(inputId): setSelectedInput(input) when midiInputs holds an
\* input with that id
SelectInput(inputId) ==
  /\ \E i \in 1..Len(midiInputs) : midiInputs[i] = inputId
  /\ selectedInput' = inputId
  /\ selectedInput' # selectedInput
  /\ UNCHANGED << midiInit, midiSupported, errorMessage, midiInputs,
                  activeNotes, accuracy, options, effectDeps, onmidimessage,
                  clock, lastMsg >>
  /\ UNCHANGED nonMidiVars

\* access.onstatechange: a device was connected or disconnected.  The
\* callback was created by the mount effect, whose selectedInput is the null
\* of the first render, so `selectedInput && ...` is false and only the list
\* of inputs is replaced
StateChange(inputs) ==
  /\ midiInit = "done"
  /\ midiSupported
  /\ midiInputs' = inputs
  /\ midiInputs' # midiInputs
  /\ UNCHANGED << midiInit, midiSupported, errorMessage, selectedInput,
                  activeNotes, accuracy, options, effectDeps, onmidimessage,
                  clock, lastMsg >>
  /\ UNCHANGED nonMidiVars

\* variant: the reset also clears the held notes
ResetStatsAll ==
  /\ accuracy' = <<>>
  /\ activeNotes' = <<>>
  /\ UNCHANGED << midiInit, midiSupported, errorMessage, midiInputs,
                  selectedInput, options, effectDeps, onmidimessage, clock,
                  lastMsg >>
  /\ UNCHANGED nonMidiVars

\* resetStats: setAccuracy([])
ResetStats ==
  /\ accuracy' = <<>>
  /\ UNCHANGED << midiInit, midiSupported, errorMessage, midiInputs,
                  selectedInput, activeNotes, options, effectDeps,
                  onmidimessage, clock, lastMsg >>
  /\ UNCHANGED nonMidiVars

\* performance.now() and Date.now() advance
Tick ==
  /\ clock < MaxClock
  /\ clock' = clock + 1
  /\ UNCHANGED << midiInit, midiSupported, errorMessage, midiInputs,
                  selectedInput, activeNotes, accuracy, options, effectDeps,
                  onmidimessage, lastMsg >>
  /\ UNCHANGED nonMidiVars

Next ==
  \/ InitUnsupported
  \/ \E inputs \in InputLists : InitGranted(inputs)
  \/ InitDenied
  \/ \E time \in TransportTimes : TimeUpdate(time)
  \/ RunEffect
  \/ \E d \in Devices, command \in Commands, note \in Pitches,
        velocity \in Velocities : HandleMIDIMessage(d, command, note, velocity)
  \/ ResetStats
  \/ Tick

Spec == Init /\ [][Next]_vars

\* ------------------------------------------------ the engine, two inputs
\* The engine with two input devices: the access is granted with both, the
\* user selects one or the other, devices come and go, and either device
\* may deliver a press of pitch 60.
TwoInputLists == {<< "in1" >>, << "in1", "in2" >>}

InputInit ==
  /\ Init
  /\ options = [expectedNotes |-> Some(Score), currentTime |-> Some(0)]

InputNext ==
  \/ InitGranted(<< "in1", "in2" >>)
  \/ \E inputId \in Devices : SelectInput(inputId)
  \/ \E inputs \in TwoInputLists : StateChange(inputs)
  \/ TimeUpdate(1000)
  \/ RunEffect
  \/ \E d \in Devices : HandleMIDIMessage(d, 144, 60, 100)

InputSpec == InputInit /\ [][InputNext]_vars

\* ------------------------------------------- the aggregates over longer logs
\* The aggregates are pure functions of the log.  StatsSpec grows the log by
\* the appends the handler performs (one record per setAccuracy call), up to
\* MaxStatLog records, without the matcher's bookkeeping, so that the
\* rounding cases of the aggregates (thirds, eighths) are reached.
StatRecords ==
  { CorrectRecord(Score[1], 60, 0),
    CorrectRecord(Score[2], 60, 0),
    WrongRecord(61, 0) }

StatsInit ==
  /\ Init
  /\ options = [expectedNotes |-> Some(Score), currentTime |-> Some(0)]

LogAppend(record) ==
  /\ Len(accuracy) < MaxStatLog
  /\ accuracy' = AppendToLog(accuracy, << record >>)
  /\ UNCHANGED << midiInit, midiSupported, errorMessage, midiInputs,
                  selectedInput, activeNotes, options, effectDeps,
                  onmidimessage, clock, lastMsg >>
  /\ UNCHANGED nonMidiVars

StatsNext ==
  \/ \E record \in StatRecords : LogAppend(record)
  \/ ResetStats

StatsSpec == StatsInit /\ [][StatsNext]_vars


\* ------------------------------------------------------------ the metronome
\* useMetronome.  start, stop, setTempo and the effects are closures of a
\* render: they read isPlaying, bpm and currentBeat as that render saw them
\* (`rendered`), while the setters and the refs act on the current values.
\* A render and the effects it schedules are one step.  The handlers are
\* written as functions from the hook's state and refs (st) and the closure
\* (c) to the state and refs after the call.
Store ==
  [isPlaying |-> isPlaying, bpm |-> bpm, currentBeat |-> currentBeat,
   audioRef |-> audioRef, intervalRef |-> intervalRef, timers |-> timers,
   nextHandle |-> nextHandle]

calculateInterval(tempo) == MsPerMinute \div tempo

clearInterval(st, handle) ==
  [st EXCEPT !.timers = {t \in @ : t.handle # handle}]

\* intervalRef.current = window.setInterval(callback, interval), the callback
\* being the tick body of closure c
setInterval(st, c, interval) ==
  [st EXCEPT !.timers = @ \cup {[handle |-> st.nextHandle,
                                 interval |-> interval,
                                 currentBeat |-> c.currentBeat]},
             !.intervalRef = st.nextHandle,
             !.nextHandle = @ + 1]

\* if (intervalRef.current) { clearInterval(...); intervalRef.current = null }
clearIntervalRef(st) ==
  IF st.intervalRef # NoTimer
  THEN [clearInterval(st, st.intervalRef) EXCEPT !.intervalRef = NoTimer]
  ELSE st

start(st, c) ==
  IF c.isPlaying \/ ~st.audioRef THEN st
  ELSE setInterval([st EXCEPT !.isPlaying = TRUE, !.currentBeat = 0],
                   c, calculateInterval(c.bpm))

stop(st, c) ==
  IF ~c.isPlaying THEN st
  ELSE clearIntervalRef([st EXCEPT !.isPlaying = FALSE])

setTempo(st, c, newTempo) ==
  LET s1 == [st EXCEPT !.bpm = newTempo]
  IN IF c.isPlaying /\ s1.intervalRef # NoTimer
     THEN setInterval(clearInterval(s1, s1.intervalRef), c,
                      calculateInterval(newTempo))
     ELSE s1

\* the effect on [options.tempo]
TempoEffect(st, c) == [st EXCEPT !.bpm = c.options.tempo]

\* the body of the effect on [options.enabled]
EnabledEffect(st, c) ==
  IF c.options.enabled = "true" /\ ~c.isPlaying THEN start(st, c)
  ELSE IF c.options.enabled = "false" /\ c.isPlaying THEN stop(st, c)
  ELSE st

\* the state and refs become st; no more than MaxTimers timers are created
Commit(st) ==
  /\ st.nextHandle <= MaxTimers + 1
  /\ isPlaying' = st.isPlaying
  /\ bpm' = st.bpm
  /\ currentBeat' = st.currentBeat
  /\ audioRef' = st.audioRef
  /\ intervalRef' = st.intervalRef
  /\ timers' = st.timers
  /\ nextHandle' = st.nextHandle

\* the effects of the first render run, in order: audio, tempo, enabled
MetMount ==
  /\ metPhase = "rendered"
  /\ metPhase' = "mounted"
  /\ LET c == rendered
         s1 == [Store EXCEPT !.audioRef = TRUE]
         s2 == TempoEffect(s1, c)
         s3 == EnabledEffect(s2, c)
     IN Commit(s3)
  /\ metLast' = [op |-> "mount", arg |-> 0]
  /\ UNCHANGED << rendered, nonMetVars >>

\* a render with options o, after a state update or an options change, and
\* its effects: the cleanup of the enabled effect if options.enabled changed,
\* then the tempo effect if options.tempo changed, then the enabled effect
MetRender(o) ==
  /\ metPhase = "mounted"
  /\ LET c == [isPlaying |-> isPlaying, bpm |-> bpm,
               currentBeat |-> currentBeat, options |-> o]
         enabledChanged == o.enabled # rendered.options.enabled
         tempoChanged == o.tempo # rendered.options.tempo
         s1 == IF enabledChanged THEN clearIntervalRef(Store) ELSE Store
         s2 == IF tempoChanged THEN TempoEffect(s1, c) ELSE s1
         s3 == IF enabledChanged THEN EnabledEffect(s2, c) ELSE s2
     IN /\ c # rendered
        /\ rendered' = c
        /\ Commit(s3)
  /\ metLast' = [op |-> "render", arg |-> 0]
  /\ UNCHANGED << metPhase, nonMetVars >>

\* the caller invokes the start it got from the latest render
CallStart ==
  /\ metPhase = "mounted"
  /\ Commit(start(Store, rendered))
  /\ metLast' = [op |-> "start", arg |-> 0]
  /\ UNCHANGED << metPhase, rendered, nonMetVars >>

CallStop ==
  /\ metPhase = "mounted"
  /\ Commit(stop(Store, rendered))
  /\ metLast' = [op |-> "stop", arg |-> 0]
  /\ UNCHANGED << metPhase, rendered, nonMetVars >>

CallSetTempo(newTempo) ==
  /\ metPhase = "mounted"
  /\ Commit(setTempo(Store, rendered, newTempo))
  /\ metLast' = [op |-> "setTempo", arg |-> newTempo]
  /\ UNCHANGED << metPhase, rendered, nonMetVars >>

\* the callback of live timer `handle` runs: without an audio element it
\* returns at once; otherwise it plays a click, advances the beat with a
\* functional update and calls options.onTick(currentBeat) with the
\* currentBeat its closure captured
MetTick(handle) ==
  /\ audioRef
  /\ \E t \in timers :
       /\ t.handle = handle
       /\ metLast' = [op |-> "tick", arg |-> t.currentBeat]
  /\ currentBeat' = (currentBeat + 1) % TickModulus
  /\ UNCHANGED << metPhase, isPlaying, bpm, rendered, audioRef, intervalRef,
                  timers, nextHandle, nonMetVars >>

\* unmount: the cleanups run in order: audio, enabled
MetUnmount ==
  /\ metPhase = "mounted"
  /\ metPhase' = "unmounted"
  /\ Commit(clearIntervalRef([Store EXCEPT !.audioRef = FALSE]))
  /\ metLast' = [op |-> "unmount", arg |-> 0]
  /\ UNCHANGED << rendered, nonMetVars >>

\* the accuracy engine before its effects have run, with no options given
EngineIdle ==
  /\ midiInit = "start"
  /\ midiSupported = FALSE
  /\ errorMessage = Null
  /\ midiInputs = <<>>
  /\ selectedInput = Null
  /\ activeNotes = <<>>
  /\ accuracy = <<>>
  /\ options = [expectedNotes |-> Absent, currentTime |-> Absent]
  /\ effectDeps = [selectedInput |-> Null, expectedNotes |-> Absent,
                   currentTime |-> Absent]
  /\ onmidimessage = [d \in Devices |-> NoHandler]
  /\ clock = 0
  /\ lastMsg = Absent

MetInit ==
  /\ EngineIdle
  /\ PollIdle
  /\ XmlFirstRender("")
  /\ \E o \in MetOptionValues : MetFirstRender(o)

MetNext ==
  \/ MetMount
  \/ \E o \in MetOptionValues : MetRender(o)
  \/ CallStart
  \/ CallStop
  \/ \E newTempo \in Tempos : CallSetTempo(newTempo)
  \/ \E handle \in 1..MaxTimers : MetTick(handle)
  \/ MetUnmount

MetSpec == MetInit /\ [][MetNext]_vars


\* --------------------------------------------------------- the score parser
\* A document is what the parser reads of it: the tempo attribute of the
\* first sound[tempo] element (Absent when there is none), the title and
\* composer texts, and the measure elements in document order, each with its
\* number attribute, the text of its divisions element and its note
\* elements.  A text is "" when the element or attribute is missing or empty:
\* the parser treats both alike.
NoteEl(step, octave, alter, duration) ==
  [rest |-> FALSE, step |-> step, octave |-> octave, alter |-> alter,
   duration |-> duration]

RestEl(duration) ==
  [rest |-> TRUE, step |-> "", octave |-> "", alter |-> "",
   duration |-> duration]

MeasureEl(number, divisions, noteEls) ==
  [number |-> number, divisions |-> divisions, notes |-> noteEls]

MeasureEls ==
  { MeasureEl("1", "", << NoteEl("C", "4", "", "4"),
                          NoteEl("E", "4", "", "2") >>),
    MeasureEl("2", "2", << RestEl("2"),
                           NoteEl("G", "3", "", "2"),
                           NoteEl("C", "4", "", ""),
                           NoteEl("D", "4", "1", "1") >>),
    MeasureEl("", "", << NoteEl("A", "4", "", "x") >>),
    MeasureEl("2", "0", << NoteEl("C", "4", "", "4") >>),
    MeasureEl("3", "", << >>),
    MeasureEl("1", "", << NoteEl("C", "4", "", "-4") >>),
    MeasureEl("1", "", << NoteEl("H", "4", "", "4"),
                          NoteEl("B", "10", "", "4"),
                          NoteEl("C", "0", "-1", "4") >>),
    MeasureEl("0", "", << NoteEl("", "4", "", "4"),
                          NoteEl("C", "5", "", "4"),
                          NoteEl("D", "", "", "4") >>) }

RECURSIVE SeqsUpTo(_, _)
SeqsUpTo(S, n) ==
  IF n = 0 THEN {<< >>}
  ELSE LET shorter == SeqsUpTo(S, n - 1)
       IN shorter \cup {Append(q, x) : q \in shorter, x \in S}

TempoAttrs == {Absent, Some(""), Some("120"), Some("x")}

Documents ==
  [tempo : TempoAttrs, title : {""}, composer : {"Trad."},
   measures : SeqsUpTo(MeasureEls, MaxMeasures)]

\* pitchMap
pitchMap ==
  ("C" :> 0) @@ ("D" :> 2) @@ ("E" :> 4) @@ ("F" :> 5) @@ ("G" :> 7) @@
  ("A" :> 9) @@ ("B" :> 11)

\* pitchMap[step]: undefined, NaN in arithmetic, for any other step
PitchClass(step) == IF step \in DOMAIN pitchMap THEN Fin(pitchMap[step]) ELSE NaN

\* sound[tempo]: parseInt(tempo attribute || '74'), or 74 without the element
TempoOf(doc) ==
  IF doc.tempo = Absent THEN Fin(DefaultTempo)
  ELSE parseInt(TextOr(ValueOf(doc.tempo), ToString(DefaultTempo)))

\* currentTime += durationInSeconds
AdvanceClock(currentTime, durationInSeconds) ==
  JsAdd(currentTime, durationInSeconds)

\* the same body without the early return for a missing duration
ParseNoteKeepingNoDuration(noteEl, noteIndex, measureNumber, divisions, tempo, st) ==
  IF noteEl.rest THEN st
  ELSE IF noteEl.step = "" \/ noteEl.octave = "" THEN st
  ELSE
    LET pitch == JsAdd(JsAdd(PitchClass(noteEl.step),
                             JsMul(parseInt(noteEl.octave),
                                   Fin(SemitonesPerOctave))),
                       IF noteEl.alter # "" THEN parseInt(noteEl.alter)
                       ELSE Fin(0))
        durationInSeconds ==
          JsMul(JsDiv(parseInt(noteEl.duration), divisions, QuarterScale),
                JsDiv(Fin(SecondsPerMinute), tempo, BeatScale))
        note == [id |-> << "note", NumberText(measureNumber), noteIndex >>,
                 pitch |-> pitch,
                 start |-> st.currentTime,
                 duration |-> durationInSeconds,
                 end |-> JsAdd(st.currentTime, durationInSeconds),
                 measure |-> measureNumber,
                 hand |-> IF JsLess(pitch, Fin(MiddleC)) THEN "left"
                          ELSE "right"]
    IN [st EXCEPT !.notes = Append(@, note),
                  !.currentTime = AdvanceClock(@, durationInSeconds)]

\* the body of noteElements.forEach for one note element: st holds the notes
\* emitted so far and the running clock
ParseNote(noteEl, noteIndex, measureNumber, divisions, tempo, st) ==
  IF noteEl.rest THEN st
  ELSE IF noteEl.step = "" \/ noteEl.octave = "" THEN st
  ELSE IF noteEl.duration = "" THEN st
  ELSE
    LET baseNote == JsAdd(PitchClass(noteEl.step),
                          JsMul(parseInt(noteEl.octave),
                                Fin(SemitonesPerOctave)))
        alterValue == IF noteEl.alter # "" THEN parseInt(noteEl.alter)
                      ELSE Fin(0)
        pitch == JsAdd(baseNote, alterValue)
        durationInDivisions == parseInt(noteEl.duration)
        durationInQuarters ==
          JsDiv(durationInDivisions, divisions, QuarterScale)
        durationInSeconds ==
          JsMul(durationInQuarters,
                JsDiv(Fin(SecondsPerMinute), tempo, BeatScale))
        hand == IF JsLess(pitch, Fin(MiddleC)) THEN "left" ELSE "right"
        note == [id |-> << "note", NumberText(measureNumber), noteIndex >>,
                 pitch |-> pitch,
                 start |-> st.currentTime,
                 duration |-> durationInSeconds,
                 end |-> JsAdd(st.currentTime, durationInSeconds),
                 measure |-> measureNumber,
                 hand |-> hand]
    IN [st EXCEPT !.notes = Append(@, note),
                  !.currentTime = AdvanceClock(@, durationInSeconds)]

RECURSIVE ParseNotes(_, _, _, _, _, _)
ParseNotes(noteEls, i, measureNumber, divisions, tempo, st) ==
  IF i > Len(noteEls) THEN st
  ELSE ParseNotes(noteEls, i + 1, measureNumber, divisions, tempo,
                  ParseNote(noteEls[i], i - 1, measureNumber, divisions,
                            tempo, st))

\* the body of measureElements.forEach for one measure element
ParseMeasure(measureEl, tempo, st) ==
  LET measureNumber == parseInt(TextOr(measureEl.number, "1"))
      measureStartTime == st.currentTime
      divisions == parseInt(TextOr(measureEl.divisions,
                                   ToString(DefaultDivisions)))
      after == ParseNotes(measureEl.notes, 1, measureNumber, divisions,
                          tempo, st)
  IN [after EXCEPT !.measures =
        Append(@, [measure |-> measureNumber, start |-> measureStartTime,
                   end |-> after.currentTime])]

RECURSIVE ParseMeasures(_, _, _, _)
ParseMeasures(measureEls, i, tempo, st) ==
  IF i > Len(measureEls) THEN st
  ELSE ParseMeasures(measureEls, i + 1, tempo,
                     ParseMeasure(measureEls[i], tempo, st))

\* the value handed to setMusicData for a document
ParseMusicXML(doc) ==
  LET tempo == TempoOf(doc)
      parsed == ParseMeasures(doc.measures, 1, tempo,
                              [notes |-> << >>, measures |-> << >>,
                               currentTime |-> Fin(0)])
  IN [notes |-> parsed.notes,
      measures |-> parsed.measures,
      title |-> TextOr(doc.title, "Untitled"),
      composer |-> TextOr(doc.composer, "Unknown"),
      tempo |-> tempo]

\* ---------------------------------------------------------- the score loader
\* useMusicXML.  The load effect runs after a render whose xmlPath differs
\* from the one it last ran with; for a non-empty path it calls
\* fetchAndParseMusicXML, which sets loading and clears error at once and
\* then awaits the response.  Nothing cancels an attempt: every attempt in
\* flight ends by itself, in any order, with a failure (the fetch rejects,
\* the response is not ok, or reading it rejects) or with the parsed document.
\* The DOM parser and the parsing loop do not throw.
FailureMessages ==
  { "Failed to fetch MusicXML: Not Found", "Failed to fetch",
    "Unknown error parsing MusicXML" }

\* the documents the sources serve in LoadSpec
ServedDocuments ==
  {doc \in Documents : doc.tempo = Some("120") /\ Len(doc.measures) <= 1}

\* the parent renders the hook with another path (once the effect of the
\* previous render has run)
XmlRender(p) ==
  /\ xmlDeps = Some(xmlPath)
  /\ p # xmlPath
  /\ xmlPath' = p
  /\ xmlLast' = [op |-> "render", id |-> 0]
  /\ UNCHANGED << xmlDeps, loading, error, musicData, inflight, nextLoad,
                  xmlDoc, queryLast, nonXmlVars >>

\* the load effect: if (xmlPath) fetchAndParseMusicXML(), up to the first
\* await
XmlEffect ==
  /\ xmlDeps # Some(xmlPath)
  /\ xmlDeps' = Some(xmlPath)
  /\ IF xmlPath # ""
     THEN /\ nextLoad <= MaxLoads
          /\ loading' = TRUE
          /\ error' = Null
          /\ inflight' = inflight \cup {[id |-> nextLoad, path |-> xmlPath]}
          /\ nextLoad' = nextLoad + 1
          /\ xmlLast' = [op |-> "begin", id |-> nextLoad]
     ELSE /\ xmlLast' = [op |-> "effect", id |-> 0]
          /\ UNCHANGED << loading, error, inflight, nextLoad >>
  /\ UNCHANGED << xmlPath, musicData, xmlDoc, queryLast, nonXmlVars >>

\* attempt a ends in the catch block, then finally
LoadFails(a, message) ==
  /\ a \in inflight
  /\ inflight' = inflight \ {a}
  /\ error' = message
  /\ loading' = FALSE
  /\ xmlLast' = [op |-> "failed", id |-> a.id]
  /\ UNCHANGED << xmlPath, xmlDeps, musicData, nextLoad, xmlDoc, queryLast,
                  nonXmlVars >>

\* attempt a receives doc, parses it and calls setMusicData, then finally
LoadSucceeds(a, doc) ==
  /\ a \in inflight
  /\ inflight' = inflight \ {a}
  /\ musicData' = Some(ParseMusicXML(doc))
  /\ loading' = FALSE
  /\ xmlLast' = [op |-> "loaded", id |-> a.id]
  /\ xmlDoc' = Some(doc)
  /\ queryLast' = Absent
  /\ UNCHANGED << xmlPath, xmlDeps, error, nextLoad, nonXmlVars >>

\* the metronome after its first render, with no auto-start
MetronomeIdle == MetFirstRender([tempo |-> 120, enabled |-> "undefined"])

LoadInit ==
  /\ EngineIdle
  /\ PollIdle
  /\ MetronomeIdle
  /\ \E p \in Paths : XmlFirstRender(p)

LoadNext ==
  \/ \E p \in Paths : XmlRender(p)
  \/ XmlEffect
  \/ \E a \in inflight, message \in FailureMessages : LoadFails(a, message)
  \/ \E a \in inflight, doc \in ServedDocuments : LoadSucceeds(a, doc)

LoadSpec == LoadInit /\ [][LoadNext]_vars

\* the parser over every document: one load of one source, which succeeds
ParseInit ==
  /\ EngineIdle
  /\ PollIdle
  /\ MetronomeIdle
  /\ XmlFirstRender("a.xml")

ParseNext ==
  \/ XmlEffect
  \/ \E a \in inflight, doc \in Documents : LoadSucceeds(a, doc)

ParseSpec == ParseInit /\ [][ParseNext]_vars

\* ---------------------------------------------------- the score's queries
\* the times and hands the queries are called with
QueryTimes ==
  {Fin(0 - 1), Fin(0), Fin(100), Fin(148), Fin(222), Fin(240), Fin(500)}

Hands == {"left", "right", "both"}

\* measures.find(m => time >= m.start && time <= m.end), from index i on
RECURSIVE FindMeasure(_, _, _)
FindMeasure(measures, time, i) ==
  IF i > Len(measures) THEN Absent
  ELSE IF JsLeq(measures[i].start, time) /\ JsLeq(time, measures[i].end)
       THEN Some(measures[i])
  ELSE FindMeasure(measures, time, i + 1)

\* a number that counts as true: not 0 and not NaN
Truthy(n) == n.kind # "NaN" /\ ~(n.kind = "finite" /\ n.v = 0)

\* getNotesByHand without the filter
getNotesByHandUnfiltered(data, hand) ==
  IF data = Absent THEN << >> ELSE ValueOf(data).notes

\* data is the musicData the query closes over
getActiveNotesAtTime(data, time) ==
  IF data = Absent THEN << >>
  ELSE LET Sounding(note) == JsLeq(note.start, time) /\ JsLeq(time, note.end)
       IN SelectSeq(ValueOf(data).notes, Sounding)

getCurrentMeasureAtTime(data, time) ==
  IF data = Absent THEN Fin(1)
  ELSE LET currentMeasure == FindMeasure(ValueOf(data).measures, time, 1)
       IN IF currentMeasure # Absent /\ Truthy(ValueOf(currentMeasure).measure)
          THEN ValueOf(currentMeasure).measure
          ELSE Fin(1)

getNotesByHand(data, hand) ==
  IF data = Absent THEN << >>
  ELSE IF hand = "both" THEN ValueOf(data).notes
  ELSE LET OfHand(note) == note.hand = hand
       IN SelectSeq(ValueOf(data).notes, OfHand)

\* a component calls a query of the current render
GetActiveNotesAtTime(time) ==
  /\ queryLast' = Some([fn |-> "getActiveNotesAtTime", time |-> time,
                        result |-> getActiveNotesAtTime(musicData, time)])
  /\ UNCHANGED << xmlPath, xmlDeps, loading, error, musicData, inflight,
                  nextLoad, xmlLast, xmlDoc >>
  /\ UNCHANGED nonXmlVars

GetCurrentMeasureAtTime(time) ==
  /\ queryLast' = Some([fn |-> "getCurrentMeasureAtTime", time |-> time,
                        result |-> getCurrentMeasureAtTime(musicData, time)])
  /\ UNCHANGED << xmlPath, xmlDeps, loading, error, musicData, inflight,
                  nextLoad, xmlLast, xmlDoc >>
  /\ UNCHANGED nonXmlVars

\* variant: the hand filter edits the score in place
GetNotesByHandInPlace(hand) ==
  /\ queryLast' = Some([fn |-> "getNotesByHand", hand |-> hand,
                        result |-> getNotesByHand(musicData, hand)])
  /\ musicData' = IF musicData = Absent THEN Absent
                  ELSE Some([ValueOf(musicData) EXCEPT
                               !.notes = getNotesByHand(musicData, hand)])
  /\ UNCHANGED << xmlPath, xmlDeps, loading, error, inflight, nextLoad,
                  xmlLast, xmlDoc >>
  /\ UNCHANGED nonXmlVars

GetNotesByHand(hand) ==
  /\ queryLast' = Some([fn |-> "getNotesByHand", hand |-> hand,
                        result |-> getNotesByHand(musicData, hand)])
  /\ UNCHANGED << xmlPath, xmlDeps, loading, error, musicData, inflight,
                  nextLoad, xmlLast, xmlDoc >>
  /\ UNCHANGED nonXmlVars

\* the queries over every parsed score, and before the score is there
QueryNext ==
  \/ XmlEffect
  \/ \E a \in inflight, doc \in Documents : LoadSucceeds(a, doc)
  \/ \E time \in QueryTimes : GetActiveNotesAtTime(time)
  \/ \E time \in QueryTimes : GetCurrentMeasureAtTime(time)
  \/ \E hand \in Hands : GetNotesByHand(hand)

QuerySpec == ParseInit /\ [][QueryNext]_vars

\* ------------------------------------------------------- the transport
\* initializePlayer, called by the player effect (fromTimeout = 0) or by a
\* pending timeout (fromTimeout = 1), with the container found or not: it
\* creates the player, or schedules itself again
initializePlayer(fromTimeout, found) ==
  IF apiReady /\ found
  THEN /\ players' = players \cup {nextPlayer}
       /\ playerRef' = nextPlayer
       /\ nextPlayer' = nextPlayer + 1
       /\ initPending' = initPending - fromTimeout
  ELSE /\ initPending' = initPending + 1 - fromTimeout
       /\ UNCHANGED << players, playerRef, nextPlayer >>

\* the player effect runs after the first render
PollMount ==
  /\ ytPhase = "rendered"
  /\ ytPhase' = "mounted"
  /\ initializePlayer(0, container)
  /\ ytLast' = [op |-> "mount", arg |-> 0]
  /\ UNCHANGED << apiReady, container, playerState, timeUpdateInterval,
                  pollTimers, nextPoll, ytTime >>
  /\ UNCHANGED nonYtVars

\* the script of the player API has run: window.YT.Player exists
ApiLoads ==
  /\ ~apiReady
  /\ apiReady' = TRUE
  /\ ytLast' = [op |-> "api", arg |-> 0]
  /\ UNCHANGED << ytPhase, container, initPending, players, playerRef,
                  nextPlayer, playerState, timeUpdateInterval, pollTimers,
                  nextPoll, ytTime >>
  /\ UNCHANGED nonYtVars

\* a pending setTimeout(initializePlayer, 100) fires and finds the API and
\* the container (when it does not, it schedules itself again and nothing
\* changes).  No cleanup cancels these timeouts.
RetryFires ==
  /\ initPending > 0
  /\ apiReady
  /\ container
  /\ initializePlayer(1, container)
  /\ ytLast' = [op |-> "create", arg |-> nextPlayer]
  /\ UNCHANGED << ytPhase, apiReady, container, playerState,
                  timeUpdateInterval, pollTimers, nextPoll, ytTime >>
  /\ UNCHANGED nonYtVars

\* variant: a PLAYING notification starts a timer without cancelling the one
\* in the ref
OnStateChangeStacking(p, data) ==
  /\ p \in players
  /\ playerState' = data
  /\ IF data = Playing
     THEN /\ nextPoll <= MaxPolls
          /\ pollTimers' = pollTimers \cup {nextPoll}
          /\ timeUpdateInterval' = nextPoll
          /\ nextPoll' = nextPoll + 1
     ELSE /\ pollTimers' = pollTimers \ {timeUpdateInterval}
          /\ timeUpdateInterval' = NoTimer
          /\ UNCHANGED nextPoll
  /\ ytLast' = [op |-> "state", arg |-> data]
  /\ UNCHANGED << ytPhase, apiReady, container, initPending, players,
                  playerRef, nextPlayer, ytTime >>
  /\ UNCHANGED nonYtVars

\* events.onStateChange: player p notifies the state data
OnStateChange(p, data) ==
  /\ p \in players
  /\ playerState' = data
  /\ IF data = Playing
     THEN /\ nextPoll <= MaxPolls
          /\ pollTimers' = (pollTimers \ {timeUpdateInterval}) \cup {nextPoll}
          /\ timeUpdateInterval' = nextPoll
          /\ nextPoll' = nextPoll + 1
     ELSE /\ pollTimers' = pollTimers \ {timeUpdateInterval}
          /\ timeUpdateInterval' = NoTimer
          /\ UNCHANGED nextPoll
  /\ ytLast' = [op |-> "state", arg |-> data]
  /\ UNCHANGED << ytPhase, apiReady, container, initPending, players,
                  playerRef, nextPlayer, ytTime >>
  /\ UNCHANGED nonYtVars

\* the callback of a live poll timer: setCurrentTime(getCurrentTime())
PollTick(handle, time) ==
  /\ handle \in pollTimers
  /\ ytTime' = time
  /\ ytLast' = [op |-> "poll", arg |-> handle]
  /\ UNCHANGED << ytPhase, apiReady, container, initPending, players,
                  playerRef, nextPlayer, playerState, timeUpdateInterval,
                  pollTimers, nextPoll >>
  /\ UNCHANGED nonYtVars

\* the cleanup of the player effect: the timer in the ref is cancelled (the
\* ref keeps the handle) and playerRef.current is destroyed, which removes
\* the iframe and with it every player created on the container
Cleanup ==
  /\ pollTimers' = pollTimers \ {timeUpdateInterval}
  /\ players' = {}
  /\ UNCHANGED << timeUpdateInterval, playerState, nextPoll, ytTime >>

\* options.videoId changes: the cleanup runs, then the effect calls
\* initializePlayer again.  A destroyed player took the container element
\* with it; present tells whether the page has put one back in time
VideoChange(present) ==
  /\ ytPhase = "mounted"
  /\ nextPlayer + initPending <= MaxPlayers
  /\ pollTimers' = pollTimers \ {timeUpdateInterval}
  /\ container' = IF playerRef # NoPlayer THEN present ELSE container
  /\ IF apiReady /\ container'
     THEN /\ players' = {nextPlayer}
          /\ playerRef' = nextPlayer
          /\ nextPlayer' = nextPlayer + 1
          /\ UNCHANGED initPending
     ELSE /\ players' = {}
          /\ initPending' = initPending + 1
          /\ UNCHANGED << playerRef, nextPlayer >>
  /\ ytLast' = [op |-> "cleanup", arg |-> 0]
  /\ UNCHANGED << ytPhase, apiReady, playerState, timeUpdateInterval,
                  nextPoll, ytTime >>
  /\ UNCHANGED nonYtVars

\* the page renders the container element again
ContainerAppears ==
  /\ ytPhase = "mounted"
  /\ ~container
  /\ container' = TRUE
  /\ ytLast' = [op |-> "container", arg |-> 0]
  /\ UNCHANGED << ytPhase, apiReady, initPending, players, playerRef,
                  nextPlayer, playerState, timeUpdateInterval, pollTimers,
                  nextPoll, ytTime >>
  /\ UNCHANGED nonYtVars

\* the component unmounts: the cleanup runs and the container leaves the
\* document
PollUnmount ==
  /\ ytPhase = "mounted"
  /\ ytPhase' = "unmounted"
  /\ Cleanup
  /\ container' = FALSE
  /\ ytLast' = [op |-> "unmount", arg |-> 0]
  /\ UNCHANGED << apiReady, initPending, playerRef, nextPlayer >>
  /\ UNCHANGED nonYtVars

PollInit ==
  /\ EngineIdle
  /\ MetronomeIdle
  /\ XmlFirstRender("")
  /\ \E ready \in BOOLEAN : PollFirstRender(ready)

PollNext ==
  \/ PollMount
  \/ ApiLoads
  \/ RetryFires
  \/ \E p \in 1..MaxPlayers, data \in PlayerStates : OnStateChange(p, data)
  \/ \E handle \in 1..MaxPolls, time \in TransportTimes :
       PollTick(handle, time)
  \/ \E present \in BOOLEAN : VideoChange(present)
  \/ ContainerAppears
  \/ PollUnmount

PollSpec == PollInit /\ [][PollNext]_vars

\* ------------------------------------------------- the hooks side by side
\* The page mounts the three hooks together.  AppSpec interleaves the score
\* loader and its queries with the accuracy engine, the transport samples
\* and the metronome, over two documents and one pressed pitch.
AppDocuments ==
  {doc \in Documents :
     /\ doc.tempo = Some("120")
     /\ Len(doc.measures) = 1
     /\ doc.measures[1].number \in {"0", "3"}}

AppInit ==
  /\ MetronomeIdle
  /\ PollIdle
  /\ XmlFirstRender("a.xml")
  /\ midiInit = "start"
  /\ midiSupported = FALSE
  /\ errorMessage = Null
  /\ midiInputs = <<>>
  /\ selectedInput = Null
  /\ activeNotes = <<>>
  /\ accuracy = <<>>
  /\ options = [expectedNotes |-> Some(Score), currentTime |-> Some(0)]
  /\ effectDeps = [selectedInput |-> Null,
                   expectedNotes |-> options.expectedNotes,
                   currentTime |-> options.currentTime]
  /\ onmidimessage = [d \in Devices |-> NoHandler]
  /\ clock = 0
  /\ lastMsg = Absent

AppNext ==
  \/ XmlRender("b.xml")
  \/ XmlEffect
  \/ \E a \in inflight, doc \in AppDocuments : LoadSucceeds(a, doc)
  \/ GetActiveNotesAtTime(Fin(0))
  \/ GetCurrentMeasureAtTime(Fin(0))
  \/ GetNotesByHand("left")
  \/ InitUnsupported
  \/ InitGranted(<< "in1" >>)
  \/ InitDenied
  \/ TimeUpdate(1000)
  \/ RunEffect
  \/ \E command \in {128, 144} : HandleMIDIMessage("in1", command, 60, 100)
  \/ ResetStats
  \/ MetMount
  \/ CallStart
  \/ CallStop
  \/ \E handle \in 1..MaxTimers : MetTick(handle)

AppSpec == AppInit /\ [][AppNext]_vars

\* ============================================================ properties
IsPrefix(s, t) == Len(s) <= Len(t) /\ SubSeq(t, 1, Len(s)) = s

LastOf(s) == s[Len(s)]

\* A step in which a press was processed: only a press adds a held entry.
\* After it lastMsg' holds the pressed pitch and the handler's closure.
PressStep == Len(activeNotes') = Len(activeNotes) + 1

\* A step in which a release was processed and changed the state.
ReleaseStep ==
  /\ lastMsg' # << >>
  /\ lastMsg'[1].kind = "release"
  /\ (lastMsg' # lastMsg \/ activeNotes' # activeNotes)

\* expected note i of the list is a candidate for a press of `note` at
\* transport time t: same pitch, start strictly less than 1000 ms from t
Candidate(list, i, t, note) ==
  /\ list[i].pitch = note
  /\ list[i].start - t < 1000
  /\ t - list[i].start < 1000

HasCandidate(list, t, note) ==
  \E i \in 1..Len(list) : Candidate(list, i, t, note)

\* both inputs of the comparison were provided to the handler closure h
BothProvided(h) == h.expectedNotes # << >> /\ h.currentTime # << >>

\* the last message processed was a press that was compared against a list
\* and a transport time, and the record it appended is the log's last one
\* (no reset has emptied the log since)
LastPressCompared ==
  /\ lastMsg # << >>
  /\ lastMsg[1].kind = "press"
  /\ BothProvided(lastMsg[1].handler[1])
  /\ Len(accuracy) > 0

\* ------------------------------------------------------------------- C1
\* C1 (as claimed): every press event appends exactly one record to the
\* accuracy log, also when the expected-note list or the transport time is
\* absent.
C1_EveryPressAppendsOne ==
  [][PressStep => Len(accuracy') = Len(accuracy) + 1]_vars

\* C1 (amended): a press processed by a handler that was given both an
\* expected-note list and a transport time appends exactly one record, which
\* is correct exactly when a matching expected note exists; a press processed
\* while either is absent leaves the log as it is.
C1_PressAppendsOneWhenCompared ==
  [][PressStep =>
       LET note == lastMsg'[1].note
           h == lastMsg'[1].handler[1]
       IN IF BothProvided(h)
          THEN /\ Len(accuracy') = Len(accuracy) + 1
               /\ IsPrefix(accuracy, accuracy')
               /\ LastOf(accuracy').actualNote = note
               /\ LastOf(accuracy').isCorrect
                    <=> HasCandidate(h.expectedNotes[1], h.currentTime[1],
                                     note)
          ELSE accuracy' = accuracy]_vars

\* a log holding a correct and a wrong record, the wrong one appended by the
\* last press
C1_Witness ==
  /\ LastPressCompared
  /\ Len(accuracy) = 2
  /\ accuracy[1].isCorrect
  /\ ~ accuracy[2].isCorrect

C3_ExactPressHasZeroOffset ==
  LastPressCompared =>
    LET note == lastMsg[1].note
        list == lastMsg[1].handler[1].expectedNotes[1]
        t == lastMsg[1].handler[1].currentTime[1]
        r == LastOf(accuracy)
    IN \A i \in 1..Len(list) :
         (/\ list[i].pitch = note
          /\ list[i].start = t
          /\ \A j \in 1..(i - 1) : ~ Candidate(list, j, t, note))
         => /\ r.isCorrect
            /\ r.noteId = list[i].id
            /\ r.expectedNote = list[i].pitch
            /\ r.timingOffset \in -1..1

\* ------------------------------------------------------------------- C4
\* C4: a compared press of a pitch for which no expected note of that pitch
\* starts within 1 s of the transport time appends one record with
\* isCorrect = FALSE, expectedNote = -1, actualNote = the pressed pitch,
\* timingOffset = 0 and a noteId that begins with "wrong".
C4_UnmatchedPressAppendsWrongRecord ==
  [][(/\ PressStep
      /\ BothProvided(lastMsg'[1].handler[1])
      /\ ~ HasCandidate(lastMsg'[1].handler[1].expectedNotes[1],
                        lastMsg'[1].handler[1].currentTime[1],
                        lastMsg'[1].note))
     => /\ Len(accuracy') = Len(accuracy) + 1
        /\ IsPrefix(accuracy, accuracy')
        /\ LastOf(accuracy').isCorrect = FALSE
        /\ LastOf(accuracy').expectedNote = 0 - 1
        /\ LastOf(accuracy').actualNote = lastMsg'[1].note
        /\ LastOf(accuracy').timingOffset = 0
        /\ LastOf(accuracy').noteId[1] = "wrong"]_vars

\* pitch 61 pressed at 1000 ms, where the only note of pitch 61 starts
\* exactly 1.0 s later: the last record is a wrong one for pitch 61
C4_Witness ==
  /\ LastPressCompared
  /\ lastMsg[1].note = 61
  /\ lastMsg[1].handler[1].expectedNotes = << Score >>
  /\ lastMsg[1].handler[1].currentTime = << 1000 >>
  /\ LastOf(accuracy).actualNote = 61
  /\ LastOf(accuracy).expectedNote = 0 - 1
  /\ ~ LastOf(accuracy).isCorrect

\* ------------------------------------------------------------------- C5
\* C5: when a press is processed, the transport time its handler matches
\* against is the most recently delivered transport-time sample.
C5_PressUsesLatestTransportTime ==
  [][PressStep =>
       lastMsg'[1].handler[1].currentTime = options.currentTime]_vars

\* ------------------------------------------------------------------- C6
\* C6: a release event (note-off command, or note-on with velocity 0) takes
\* the released pitch out of the held set, keeps every other held pitch, and
\* leaves the accuracy log unchanged.
C6_ReleaseRemovesPitchKeepsLog ==
  [][ReleaseStep =>
       /\ accuracy' = accuracy
       /\ HeldPitches' = HeldPitches \ {lastMsg'[1].note}]_vars

\* the last message was a release, nothing is held any more, and the log
\* still has the two records of the presses
C6_Witness ==
  /\ lastMsg # << >>
  /\ lastMsg[1].kind = "release"
  /\ activeNotes = << >>
  /\ Len(accuracy) = 2

\* ------------------------------------------------------------------- C7
\* C7: the held set follows the last event of each pitch: a press of p puts
\* p in the set, a release of p takes p out, and neither changes the
\* membership of any other pitch; every other step leaves the set as it is.
C7_HeldSetFollowsLastEvent ==
  [][HeldPitches' =
       IF PressStep THEN HeldPitches \cup {lastMsg'[1].note}
       ELSE IF ReleaseStep THEN HeldPitches \ {lastMsg'[1].note}
       ELSE HeldPitches]_vars

\* 60 and 61 were both pressed and 60 was released last: only 61 is held
C7_Witness ==
  /\ lastMsg # << >>
  /\ lastMsg[1].kind = "release"
  /\ lastMsg[1].note = 60
  /\ HeldPitches = {61}

\* ------------------------------------------------------------------- C8
\* C8: resetStats() empties the accuracy log, so that both aggregates are 0,
\* and leaves the held notes exactly as they were.
C8_ResetEmptiesLogKeepsHeld ==
  [][ResetStats
     => /\ accuracy' = << >>
        /\ accuracyPercentage' = 0
        /\ averageTimingOffset' = 0
        /\ activeNotes' = activeNotes]_vars

\* the last message was a compared press, which appended a record; the log
\* is empty again, which only a reset does, and two notes are still held
C8_Witness ==
  /\ lastMsg # << >>
  /\ lastMsg[1].kind = "press"
  /\ BothProvided(lastMsg[1].handler[1])
  /\ accuracy = << >>
  /\ Len(activeNotes) = 2

\* ------------------------------------------------------------------- C9
\* C9: the accuracy log is append-only: every step other than resetStats()
\* keeps the log of before as a prefix of the log of after.
C9_LogAppendOnly ==
  [][ResetStats \/ IsPrefix(accuracy, accuracy')]_vars

\* two presses have appended, one after the other
C9_Witness ==
  /\ LastPressCompared
  /\ Len(accuracy) = 2
  /\ Len(activeNotes) = 2

C11_AverageOffsetIsRoundedMeanOverAll ==
  LET total == Len(accuracy)
      Magnitude(i) == IF accuracy[i].timingOffset < 0
                      THEN 0 - accuracy[i].timingOffset
                      ELSE accuracy[i].timingOffset
      sum[i \in 0..total] == IF i = 0 THEN 0 ELSE sum[i - 1] + Magnitude(i)
      avg == averageTimingOffset
  IN /\ total = 0 => avg = 0
     /\ total > 0 =>
          /\ 2 * avg * total - total <= 2 * sum[total]
          /\ 2 * sum[total] < 2 * avg * total + total
     /\ \A i \in 1..total : ~accuracy[i].isCorrect => Magnitude(i) = 0
     /\ AverageTimingOffsetOf(Append(accuracy, WrongRecord(61, clock))) <= avg

\* one late record of 500 ms among eight records, a wrong one among them:
\* 62.5 is shown as 63
C11_Witness ==
  /\ Len(accuracy) = 8
  /\ \E i \in 1..8 : ~accuracy[i].isCorrect
  /\ Cardinality({i \in 1..8 : accuracy[i].timingOffset = 0 - 500}) = 1
  /\ averageTimingOffset = 63

\* ------------------------------------------------------------------ C12
\* C12: in every reachable state of a metronome instance the number of live
\* repeating timers is 1 while it is Running (isPlaying) and 0 while it is
\* Stopped or torn down, and every live timer is the one intervalRef holds
\* (no handle was overwritten or dropped without being cancelled).
C12_OneLiveTimerIffRunning ==
  /\ metPhase = "mounted" =>
       Cardinality(timers) = (IF isPlaying THEN 1 ELSE 0)
  /\ metPhase = "unmounted" => timers = {}
  /\ \A t \in timers : t.handle = intervalRef

\* ------------------------------------------------------------------ C13
\* C13: a start() call on a Running metronome changes neither the live
\* timers nor the beat counter and leaves it Running; a start() call on a
\* Stopped metronome makes it Running, adds exactly one live timer and
\* resets the beat counter to 0.
C13_StartIsNoOpWhenRunning ==
  [][CallStart =>
       IF isPlaying
       THEN /\ timers' = timers
            /\ currentBeat' = currentBeat
            /\ isPlaying'
       ELSE /\ isPlaying'
            /\ Cardinality(timers' \ timers) = 1
            /\ timers \subseteq timers'
            /\ currentBeat' = 0]_vars

\* ------------------------------------------------------------------ C14
\* C14: after a stop() call the metronome is Stopped and no repeating timer
\* is live (so no tick can follow it until the next start()), the beat
\* counter is what it was, and a stop() call on a Stopped metronome changes
\* nothing.
C14_StopCancelsTheTick ==
  [][CallStop =>
       /\ ~isPlaying'
       /\ timers' = {}
       /\ currentBeat' = currentBeat
       /\ (~isPlaying =>
             UNCHANGED << timers, intervalRef, bpm, nextHandle >>)]_vars

\* ------------------------------------------------------------------ C15
\* C15: a step that changes the tempo (bpm) of a Running metronome with one
\* live timer, whether setTempo() or a render with a new tempo option, and
\* leaves it Running, cancels that timer and leaves exactly one live timer,
\* a new one, whose interval is 60000 / the new tempo.
C15_TempoChangeReschedules ==
  [][(/\ bpm' # bpm
      /\ isPlaying /\ isPlaying'
      /\ Cardinality(timers) = 1
      /\ rendered'.options.enabled = rendered.options.enabled)
     => /\ Cardinality(timers') = 1
        /\ timers' \cap timers = {}
        /\ \A t \in timers' : t.interval * bpm' = MsPerMinute]_vars

\* ------------------------------------------------------------------ C16
\* C16: while the metronome is Running, every live repeating timer has the
\* interval 60000 / bpm milliseconds for the current tempo bpm (500 ms at
\* 120 BPM, 750 ms at 80 BPM).
C16_IntervalMatchesCurrentTempo ==
  isPlaying => \A t \in timers : t.interval * bpm = MsPerMinute

\* ------------------------------------------------------------------ C17
\* a step in which the callback of a live timer ran to its end
TickStep == \E handle \in 1..MaxTimers : MetTick(handle)

\* C17: every tick advances the beat counter to (beat mod beatsPerMeasure)
\* + 1, a value in 1..beatsPerMeasure.
C17_TickAdvancesBeatWithinMeasure ==
  [][TickStep =>
       /\ currentBeat' = (currentBeat % BeatsPerMeasure) + 1
       /\ currentBeat' \in 1..BeatsPerMeasure]_vars

\* ------------------------------------------------------------------ C18
\* C18: the onTick call of a tick passes the new beat index, the value the
\* beat counter holds after that tick's advance.
C18_OnTickGetsNewBeat ==
  [][TickStep => metLast'.arg = currentBeat']_vars

\* ------------------------------------------------------------------ C19
\* a step in which a load attempt ended in failure
FailStep ==
  \E a \in inflight, message \in FailureMessages : LoadFails(a, message)

\* C19: when a load attempt fails, afterwards error holds a message and
\* MusicData is unset, whatever loads came before, and the failure starts no
\* new attempt.
C19_FailedLoadLeavesErrorAndNoData ==
  [][FailStep =>
       /\ error' \in FailureMessages
       /\ musicData' = Absent
       /\ nextLoad' = nextLoad
       /\ inflight' \subseteq inflight]_vars

\* ------------------------------------------------------------------ C20
\* the sum of the durations of notes[from..to], added up from 0
RECURSIVE SumDurations(_, _, _)
SumDurations(notes, from, to) ==
  IF from > to THEN Fin(0)
  ELSE JsAdd(SumDurations(notes, from, to - 1), notes[to].duration)

\* the ways to cut a list of n notes into k consecutive blocks, one per
\* measure: cut[i] is the number of notes emitted up to and including
\* measure i
Cuts(n, k) ==
  {cut \in [0..k -> 0..n] :
     /\ cut[0] = 0
     /\ cut[k] = n
     /\ \A i \in 1..k : cut[i - 1] <= cut[i]}

\* C20: in a parsed score the first measure starts at 0, each measure's end
\* equals (===) the next measure's start, and the notes list splits into
\* consecutive blocks, one per measure, such that each measure's end equals
\* its start plus the sum of the durations of the notes of its block, which
\* all carry that measure's number.
C20_MeasuresPartitionTheTimeline ==
  musicData # Absent =>
    LET measures == ValueOf(musicData).measures
        notes == ValueOf(musicData).notes
        k == Len(measures)
    IN /\ k > 0 => JsEq(measures[1].start, Fin(0))
       /\ \A i \in 1..(k - 1) : JsEq(measures[i].end, measures[i + 1].start)
       /\ \E cut \in Cuts(Len(notes), k) :
            \A i \in 1..k :
              /\ \A j \in (cut[i - 1] + 1)..cut[i] :
                   notes[j].measure = measures[i].measure
              /\ JsEq(measures[i].end,
                      JsAdd(measures[i].start,
                            SumDurations(notes, cut[i - 1] + 1, cut[i])))

\* the same, for the scores whose measure bounds are all numbers
C20_HoldsWithoutNaN ==
  (/\ musicData # Absent
   /\ \A i \in 1..Len(ValueOf(musicData).measures) :
        ValueOf(musicData).measures[i].end.kind # "NaN")
  => C20_MeasuresPartitionTheTimeline

\* ------------------------------------------------- the parser's contract
\* The claims about the parser relate the published score to the document it
\* was parsed from (xmlDoc).  An entry is accepted when it is not a rest and
\* has a step, an octave and a duration text.
Accepted(noteEl) ==
  /\ ~noteEl.rest
  /\ noteEl.step # ""
  /\ noteEl.octave # ""
  /\ noteEl.duration # ""

\* the positions << measure index, note index >> of the accepted entries of
\* a list of measure elements, in document order, from position (i, j) on
RECURSIVE AcceptedFrom(_, _, _)
AcceptedFrom(measureEls, i, j) ==
  IF i > Len(measureEls) THEN << >>
  ELSE IF j > Len(measureEls[i].notes) THEN AcceptedFrom(measureEls, i + 1, 1)
  ELSE (IF Accepted(measureEls[i].notes[j]) THEN << << i, j >> >> ELSE << >>)
       \o AcceptedFrom(measureEls, i, j + 1)

ParsedNotes == ValueOf(musicData).notes
ParsedMeasures == ValueOf(musicData).measures
SourceMeasures == ValueOf(xmlDoc).measures
SourceEntries == AcceptedFrom(SourceMeasures, 1, 1)

\* a score is published and the document it came from is known
Parsed == musicData # Absent /\ xmlDoc # Absent

\* a - b
JsSub(a, b) ==
  JsAdd(a, CASE b.kind = "Infinity" -> NegInfinity
             [] b.kind = "-Infinity" -> Infinity
             [] b.kind = "NaN" -> NaN
             [] OTHER -> Fin(0 - b.v))

\* ------------------------------------------------------------------ C21
\* C21: every note of a parsed score satisfies start <= end and
\* duration === end - start.
C21_NoteSpansAreOrdered ==
  Parsed =>
    \A k \in 1..Len(ParsedNotes) :
      /\ JsLeq(ParsedNotes[k].start, ParsedNotes[k].end)
      /\ JsEq(ParsedNotes[k].duration,
              JsSub(ParsedNotes[k].end, ParsedNotes[k].start))

\* ------------------------------------------------------------------ C22
\* C22: in a parsed score the notes are in non-decreasing order of start and
\* the measures are in increasing order of measure number.
C22_NotesAndMeasuresAreOrdered ==
  Parsed =>
    /\ \A k \in 1..(Len(ParsedNotes) - 1) :
         JsLeq(ParsedNotes[k].start, ParsedNotes[k + 1].start)
    /\ \A i \in 1..(Len(ParsedMeasures) - 1) :
         JsLess(ParsedMeasures[i].measure, ParsedMeasures[i + 1].measure)

\* ------------------------------------------------------------------ C23
\* the diatonic offsets of the steps
Diatonic ==
  [step \in {"C", "D", "E", "F", "G", "A", "B"} |->
     CASE step = "C" -> 0 [] step = "D" -> 2 [] step = "E" -> 4
       [] step = "F" -> 5 [] step = "G" -> 7 [] step = "A" -> 9
       [] step = "B" -> 11]

\* entry k of the accepted entries of the source document
SourceEntry(k) ==
  SourceMeasures[SourceEntries[k][1]].notes[SourceEntries[k][2]]

\* the measure element entry k belongs to
SourceMeasureOf(k) == SourceMeasures[SourceEntries[k][1]]

\* the step, octave and alter of an entry are a step of the table and whole
\* numbers (alter may be missing)
WellFormedPitch(e) ==
  /\ e.step \in DOMAIN Diatonic
  /\ e.octave \in DOMAIN IntegerTexts
  /\ e.alter = "" \/ e.alter \in DOMAIN IntegerTexts

\* C23: the notes of a parsed score are the accepted entries in order; the
\* pitch of a note is diatonic(step) + alter + octave * 12, alter being 0
\* when missing; and an entry written as middle C (step C, octave 4, no
\* alter) has pitch 60.
C23_PitchFormulaGivesMiddleC60 ==
  Parsed =>
    /\ Len(ParsedNotes) = Len(SourceEntries)
    /\ \A k \in 1..Len(ParsedNotes) :
         LET e == SourceEntry(k)
             alter == IF e.alter = "" THEN 0 ELSE IntegerTexts[e.alter]
         IN /\ WellFormedPitch(e) =>
                 ParsedNotes[k].pitch =
                   Fin(Diatonic[e.step] + alter + IntegerTexts[e.octave] * 12)
            /\ (e.step = "C" /\ e.octave = "4" /\ e.alter = "") =>
                 ParsedNotes[k].pitch = Fin(60)

\* ------------------------------------------------------------------ C24
\* C24: every note of a parsed score has a whole-number pitch in 0..127.
C24_PitchIsAMidiNumber ==
  Parsed => \A k \in 1..Len(ParsedNotes) :
      /\ ParsedNotes[k].pitch.kind = "finite"
      /\ ParsedNotes[k].pitch.v \in 0..127

\* ------------------------------------------------------------------ C25
\* the tempo of the parsed score
ParsedTempo == ValueOf(musicData).tempo

\* the divisions of a measure element: its declared value, 4 when it
\* declares none
MeasureDivisions(measureEl) ==
  IF measureEl.divisions = "" THEN 4 ELSE IntegerTexts[measureEl.divisions]

\* the duration of entry k is a number that can be converted: whole-number
\* texts, divisions and tempo not zero
Convertible(k) ==
  /\ SourceEntry(k).duration \in DOMAIN IntegerTexts
  /\ SourceMeasureOf(k).divisions \in DOMAIN IntegerTexts \cup {""}
  /\ MeasureDivisions(SourceMeasureOf(k)) # 0
  /\ ParsedTempo.kind = "finite"
  /\ ParsedTempo.v # 0

\* C25: the duration of a note is (noteDivisions / measureDivisions) *
\* (60 / tempo), measureDivisions being the value the note's own measure
\* declares and 4 when that measure declares none, whatever an earlier
\* measure declared.  Durations are in units of 1 / (QuarterScale *
\* BeatScale) second, so the equation is stated cross-multiplied.
C25_DurationUsesOwnMeasureDivisions ==
  Parsed =>
    /\ Len(ParsedNotes) = Len(SourceEntries)
    /\ \A k \in 1..Len(ParsedNotes) :
         Convertible(k) =>
           /\ ParsedNotes[k].duration.kind = "finite"
           /\ ParsedNotes[k].duration.v
                * MeasureDivisions(SourceMeasureOf(k)) * ParsedTempo.v
              = IntegerTexts[SourceEntry(k).duration] * SecondsPerMinute
                  * QuarterScale * BeatScale

\* a measure declaring 2 divisions is followed by a measure declaring none,
\* and a note of the second measure got its duration
C25_Witness ==
  /\ Parsed
  /\ Len(SourceMeasures) = 2
  /\ SourceMeasures[1].divisions = "2"
  /\ SourceMeasures[2].divisions = ""
  /\ \E k \in 1..Len(ParsedNotes) :
       /\ SourceEntries[k][1] = 2
       /\ Convertible(k)
       /\ ParsedNotes[k].duration.kind = "finite"
       /\ ParsedNotes[k].duration.v > 0

\* ------------------------------------------------------------------ C26
\* a document without its rests and its incomplete entries
Stripped(doc) ==
  [doc EXCEPT !.measures =
     [i \in 1..Len(doc.measures) |->
        [doc.measures[i] EXCEPT !.notes = SelectSeq(@, Accepted)]]]

\* a list of notes without the ids
WithoutIds(notes) ==
  [k \in 1..Len(notes) |->
     [pitch |-> notes[k].pitch, start |-> notes[k].start,
      duration |-> notes[k].duration, end |-> notes[k].end,
      measure |-> notes[k].measure, hand |-> notes[k].hand]]

\* the document holds a rest or an incomplete entry
HasSkippedEntry ==
  \E i \in 1..Len(SourceMeasures) :
    \E j \in 1..Len(SourceMeasures[i].notes) :
      ~Accepted(SourceMeasures[i].notes[j])

\* C26 as stated: a rest and an entry missing its step, octave or duration
\* produce no note and leave the clock alone, and the score is the one the
\* document without these entries gives, every field of every note included.
C26_SkippedEntriesLeaveNoTrace ==
  Parsed => ValueOf(musicData) = ParseMusicXML(Stripped(ValueOf(xmlDoc)))

\* C26 amended: the score is the one the document without these entries
\* gives, in the notes' pitch, start, duration, end, measure and hand, in
\* the measures and in the header; one note per accepted entry.  The id of a
\* note is left out: it counts the skipped entries before it.
C26_SkippedEntriesLeaveOnlyIdGaps ==
  Parsed =>
    LET reference == ParseMusicXML(Stripped(ValueOf(xmlDoc)))
    IN /\ Len(ParsedNotes) = Len(SourceEntries)
       /\ WithoutIds(ParsedNotes) = WithoutIds(reference.notes)
       /\ ParsedMeasures = reference.measures
       /\ ParsedTempo = reference.tempo
       /\ \A k \in 1..Len(ParsedNotes) :
            ParsedNotes[k].id[3] = SourceEntries[k][2] - 1

\* a skipped entry stands between two accepted entries of one measure, and
\* both were emitted
C26_Witness ==
  /\ Parsed
  /\ HasSkippedEntry
  /\ \E k \in 1..(Len(ParsedNotes) - 1) :
       /\ SourceEntries[k][1] = SourceEntries[k + 1][1]
       /\ SourceEntries[k + 1][2] > SourceEntries[k][2] + 1

\* ------------------------------------------------------------------ C27
\* the tempo declaration of the source document is a whole number
DeclaresTempo ==
  /\ ValueOf(xmlDoc).tempo # Absent
  /\ ValueOf(ValueOf(xmlDoc).tempo) \in DOMAIN IntegerTexts

\* C27: the tempo of a parsed score is the declared tempo when the
\* declaration is a number, and 74 when there is no declaration or its value
\* is empty or not a number.
C27_TempoIsDeclaredOrDefault ==
  Parsed =>
    ParsedTempo = IF DeclaresTempo
                  THEN Fin(IntegerTexts[ValueOf(ValueOf(xmlDoc).tempo)])
                  ELSE Fin(74)

\* ------------------------------------------------------------------ C28
\* the last call was the given query
Asked(fn) == queryLast # Absent /\ ValueOf(queryLast).fn = fn

\* the indices of a list in increasing order that belong to a set
RECURSIVE Pick(_, _, _)
Pick(list, indices, k) ==
  IF k > Len(list) THEN << >>
  ELSE (IF k \in indices THEN << list[k] >> ELSE << >>)
       \o Pick(list, indices, k + 1)

\* the notes of the score that span the time of the last call
Spanning ==
  {k \in 1..Len(ParsedNotes) :
     /\ JsLeq(ParsedNotes[k].start, ValueOf(queryLast).time)
     /\ JsLeq(ValueOf(queryLast).time, ParsedNotes[k].end)}

\* the time of the last call is after the end of the final measure
PastTheEnd ==
  /\ ParsedMeasures # << >>
  /\ JsLess(ParsedMeasures[Len(ParsedMeasures)].end, ValueOf(queryLast).time)

\* C28: getActiveNotesAtTime(t) gives the notes with start <= t <= end in
\* list order, nothing for a t after the end of the final measure, and
\* nothing when no score is loaded.
C28_ActiveNotesAreTheSpanningNotes ==
  Asked("getActiveNotesAtTime") =>
    IF musicData = Absent THEN ValueOf(queryLast).result = << >>
    ELSE /\ ValueOf(queryLast).result = Pick(ParsedNotes, Spanning, 1)
         /\ PastTheEnd => ValueOf(queryLast).result = << >>

\* ------------------------------------------------------------------ C29
\* the measures of the score that contain the time of the last call
Containing ==
  {i \in 1..Len(ParsedMeasures) :
     /\ JsLeq(ParsedMeasures[i].start, ValueOf(queryLast).time)
     /\ JsLeq(ValueOf(queryLast).time, ParsedMeasures[i].end)}

\* the least member of a non-empty set of indices
Least(indices) == CHOOSE i \in indices : \A j \in indices : i <= j

\* C29: getCurrentMeasureAtTime(t) gives the number of the first measure in
\* list order with start <= t <= end, and 1 when no measure contains t, when
\* there are no measures and when no score is loaded.
C29_CurrentMeasureIsFirstContaining ==
  Asked("getCurrentMeasureAtTime") =>
    IF musicData = Absent THEN ValueOf(queryLast).result = Fin(1)
    ELSE IF Containing = {} THEN ValueOf(queryLast).result = Fin(1)
    ELSE ValueOf(queryLast).result = ParsedMeasures[Least(Containing)].measure

\* ------------------------------------------------------------------ C30
\* the notes of the score with a hand tag
Tagged(hand) == {k \in 1..Len(ParsedNotes) : ParsedNotes[k].hand = hand}

\* C30: getNotesByHand('both') gives all the notes in order;
\* getNotesByHand('left') and getNotesByHand('right') give the notes with
\* that hand tag in order; every note of a parsed score is tagged left when
\* its pitch is below 60 and right otherwise, so the two lists share no note
\* and leave none out.
C30_NotesByHandPartitionTheScore ==
  (Asked("getNotesByHand") /\ Parsed) =>
    /\ ValueOf(queryLast).result =
         IF ValueOf(queryLast).hand = "both" THEN ParsedNotes
         ELSE Pick(ParsedNotes, Tagged(ValueOf(queryLast).hand), 1)
    /\ \A k \in 1..Len(ParsedNotes) :
         ParsedNotes[k].hand =
           IF ParsedNotes[k].pitch.kind = "finite"
                /\ ParsedNotes[k].pitch.v < 60
           THEN "left" ELSE "right"
    /\ Tagged("left") \cap Tagged("right") = {}
    /\ Tagged("left") \cup Tagged("right") = 1..Len(ParsedNotes)
    /\ Len(getNotesByHand(musicData, "left"))
         + Len(getNotesByHand(musicData, "right")) = Len(ParsedNotes)

\* one hand was asked of a score with notes for both hands, one of them at
\* pitch 60
C30_Witness ==
  /\ Asked("getNotesByHand")
  /\ Parsed
  /\ ValueOf(queryLast).hand = "left"
  /\ ValueOf(queryLast).result # << >>
  /\ Len(ValueOf(queryLast).result) < Len(ParsedNotes)
  /\ \E k \in 1..Len(ParsedNotes) : ParsedNotes[k].pitch = Fin(60)

\* ------------------------------------------------------------------ C31
\* a step of the loader that publishes a score
PublishStep ==
  /\ xmlLast # xmlLast'
  /\ xmlLast'.op = "loaded"
  /\ musicData' = Some(ParseMusicXML(ValueOf(xmlDoc')))

\* C31: once a score is there, no query, no press, release or reset, no
\* transport sample and no metronome step changes it; it changes only when a
\* load publishes a whole new score, and it is never taken away.
C31_OnlyALoadReplacesTheScore ==
  [][/\ musicData' # musicData => PublishStep
     /\ musicData # Absent => musicData' # Absent]_vars

\* the second load has replaced the score; a press was logged, the metronome
\* ticked and a query of the new score was answered
C31_Witness ==
  /\ musicData # Absent
  /\ xmlLast = [op |-> "loaded", id |-> 2]
  /\ accuracy # << >>
  /\ metLast.op = "tick"
  /\ Asked("getNotesByHand")
  /\ Len(ValueOf(queryLast).result) < Len(ParsedNotes)

\* ------------------------------------------------------------------ C32
\* initMIDI has ended without access: Web MIDI is missing or was denied
Unavailable == midiInit = "done" /\ ~midiSupported

\* C32: without MIDI access the hook reports midiSupported = false with a
\* message; no input is selected, no handler is attached, no press or
\* release has been processed and the log and the held notes are empty.  The
\* loader, the queries and the metronome do not read this state.
C32_NoAccessMeansNoMatching ==
  Unavailable =>
    /\ errorMessage # Null
    /\ selectedInput = Null
    /\ \A d \in Devices : onmidimessage[d] = NoHandler
    /\ lastMsg = Absent
    /\ accuracy = << >>
    /\ activeNotes = << >>

\* without MIDI access a score was loaded and queried and the metronome
\* ticked
C32_Witness ==
  /\ Unavailable
  /\ musicData # Absent
  /\ queryLast # Absent
  /\ isPlaying
  /\ metLast.op = "tick"

\* ------------------------------------------------------------------ C33
\* the last loader step was the end of an attempt
AttemptEnded == xmlLast.op \in {"loaded", "failed"}

\* the attempt started last: the one for the current source
LatestAttempt == nextLoad - 1

\* C33: when every load has completed, the outcome published last (the
\* score of a success, the message of a failure) is the outcome of the
\* attempt started last, the one for the current source, in whichever order
\* the attempts end.
C33_LastSourceWins ==
  (inflight = {} /\ AttemptEnded /\ xmlDeps = Some(xmlPath)) =>
    xmlLast.id = LatestAttempt

\* ------------------------------------------------------------------ C34
\* C34: loading is true from the start of an attempt until it ends; when an
\* attempt ends loading is false, and the attempt has published its score
\* (a success) or its message (a failure).
C34_LoadingSpansEveryAttempt ==
  /\ inflight # {} => loading = TRUE
  /\ xmlLast.op = "loaded" =>
       /\ loading = FALSE
       /\ musicData = Some(ParseMusicXML(ValueOf(xmlDoc)))
  /\ xmlLast.op = "failed" =>
       /\ loading = FALSE
       /\ error \in FailureMessages

\* ------------------------------------------------------------------ C35
\* C35: the ids of the notes of a parsed score are pairwise distinct.
C35_NoteIdsAreDistinct ==
  Parsed => \A j, k \in 1..Len(ParsedNotes) :
      ParsedNotes[j].id = ParsedNotes[k].id => j = k

\* ------------------------------------------------------------------ C36
\* C36: the held notes hold at most one entry per pitch.
C36_OneHeldEntryPerPitch ==
  \A i, j \in 1..Len(activeNotes) :
    activeNotes[i].note = activeNotes[j].note => i = j

\* ------------------------------------------------------------------ C37
\* C37: the log never holds two matched records with the same noteId.
C37_EachNoteCreditedOnce ==
  \A i, j \in 1..Len(accuracy) :
    (/\ accuracy[i].isCorrect
     /\ accuracy[j].isCorrect
     /\ accuracy[i].noteId = accuracy[j].noteId) => i = j

\* ------------------------------------------------------------------ C38
\* the ids of the notes of the expected list handed to the engine
RealNoteIds ==
  IF Provided(options.expectedNotes)
  THEN {ValueOf(options.expectedNotes)[k].id :
          k \in 1..Len(ValueOf(options.expectedNotes))}
  ELSE {}

\* C38: the noteIds of the unmatched records of the log are pairwise
\* distinct, and none of them is the id of a note of the score.
C38_SentinelIdsAreDistinct ==
  /\ \A i, j \in 1..Len(accuracy) :
       (/\ ~accuracy[i].isCorrect
        /\ ~accuracy[j].isCorrect
        /\ accuracy[i].noteId = accuracy[j].noteId) => i = j
  /\ \A i \in 1..Len(accuracy) :
       ~accuracy[i].isCorrect => accuracy[i].noteId \notin RealNoteIds

\* ------------------------------------------------------------------ C39
\* the devices that have a handler attached
Attached == {d \in Devices : onmidimessage[d] # NoHandler}

\* the device whose handler processed the press of a step
Delivering(d) ==
  /\ onmidimessage[d] # NoHandler
  /\ lastMsg' # lastMsg \/ activeNotes' # activeNotes
  /\ \A e \in Devices \ {d} : onmidimessage[e] = NoHandler

\* C39: at most one device has the handler attached, and it is the selected
\* input; a press is only ever processed from the selected input; and the
\* selected input has the handler attached whenever the handler effect has
\* run for the current selection, expected notes and transport time.
C39_OnlyTheSelectedInputIsHeard ==
  [][/\ Cardinality(Attached) <= 1
     /\ Attached \subseteq {selectedInput}
     /\ \A d \in Devices : Delivering(d) => d = selectedInput
     /\ (effectDeps = CurrentDeps /\ selectedInput # Null)
          => selectedInput \in Attached]_vars

\* ------------------------------------------------------------------ C40
\* C40: the poll has at most one live timer; a timer is live only while the
\* last notified player state is PLAYING and the component is mounted; the
\* timer in the ref is the live one; after a notification of another state
\* and after a teardown no timer is live.
C40_OnePollTimerWhilePlaying ==
  /\ Cardinality(pollTimers) <= 1
  /\ pollTimers \subseteq {timeUpdateInterval}
  /\ pollTimers # {} => playerState = Playing /\ ytPhase = "mounted"
  /\ (ytLast.op = "state" /\ ytLast.arg # Playing) => pollTimers = {}
  /\ ytLast.op \in {"cleanup", "unmount"} => pollTimers = {}

\* PLAYING was notified again while a timer was live, by the second of two
\* players, and one timer is live
C40_Witness ==
  /\ ytLast = [op |-> "state", arg |-> Playing]
  /\ nextPoll > 2
  /\ Cardinality(players) = 2
  /\ Cardinality(pollTimers) = 1

====
